---------------------------- MODULE Spec2Model ----------------------------
(***************************************************************************)
(* Model of bot.py: a keyword autoresponder.  load_qa_data reads the store *)
(* file qa_data.json, find_answer scans the loaded records for the first   *)
(* keyword that is a substring of the message, handle_message dispatches   *)
(* the resulting descriptor to reply_text / reply_photo.                   *)
(*                                                                         *)
(* A string is a sequence of one-character strings.  A JSON / Python value *)
(* that may be a string, null (None) or an absent dict key is a record     *)
(* [tag, s].                                                               *)
(***************************************************************************)
EXTENDS Naturals, Sequences, FiniteSets

VARIABLES
    qa_file,    \* content of qa_data.json on disk
    task,       \* task[h]: the handle_message coroutine running in slot h
    app,        \* state of the polling application ("running" / "stopped")
    call,       \* one call of find_answer: its arguments and its outcome
    load_call   \* one call of load_qa_data: the file it reads and its outcome

vars == <<qa_file, task, app, call, load_call>>

----------------------------------------------------------------------------
(* Bounds of the model *)

\* longest message text of a find_answer call
MaxMsgLen == 2
\* most records in the record list of a find_answer call
MaxRecords == 2
\* most records in a store file served by the handler
MaxStoreLen == 1
\* concurrently running handle_message coroutines
NumTasks == 2

----------------------------------------------------------------------------
(* Strings and optional values *)

Alphabet == {"a", "A", "b"}

RECURSIVE TextsUpTo(_)
TextsUpTo(n) ==
    IF n = 0 THEN {<<>>}
    ELSE LET shorter == TextsUpTo(n - 1)
         IN  shorter \cup {Append(t, c) : t \in {u \in shorter : Len(u) = n - 1}, c \in Alphabet}

RECURSIVE SeqsUpTo(_, _)
SeqsUpTo(S, n) ==
    IF n = 0 THEN {<<>>}
    ELSE LET shorter == SeqsUpTo(S, n - 1)
         IN  shorter \cup {Append(t, x) : t \in {u \in shorter : Len(u) = n - 1}, x \in S}

Absent == [tag |-> "absent", s |-> <<>>]
Null == [tag |-> "null", s |-> <<>>]
Str(t) == [tag |-> "str", s |-> t]

\* dict.get(key, default): the default only when the key is absent; a key
\* stored as null yields None
dict_get(field, default) == IF field.tag = "absent" THEN default ELSE field

\* Python truthiness of an optional string: None and "" are falsy
Truthy(v) == v.tag = "str" /\ v.s # <<>>

\* str.lower() on the model alphabet
LowerChar(c) == IF c = "A" THEN "a" ELSE c
Lower(t) == [i \in 1..Len(t) |-> LowerChar(t[i])]

\* needle in hay (Python substring test)
Contains(hay, needle) ==
    \E i \in 0..(Len(hay) - Len(needle)) :
        SubSeq(hay, i + 1, i + Len(needle)) = needle

TEXT == <<"t", "e", "x", "t">>
PHOTO == <<"p", "h", "o", "t", "o">>
GIF == <<"g", "i", "f">>
\* the fixed reply "Извините, файл не найден."
FALLBACK_TEXT == <<"Izvinite, fajl ne najden.">>

----------------------------------------------------------------------------
(* find_answer *)

KwAbsent == [tag |-> "absent", l |-> <<>>]
KwList(l) == [tag |-> "list", l |-> l]

\* qa.get('keywords', [])
keywords_of(qa) == IF qa.keywords.tag = "absent" THEN <<>> ELSE qa.keywords.l

NoDesc == [type |-> Absent, answer |-> Absent, caption |-> Absent]
ReturnNone == [status |-> "none", desc |-> NoDesc]
Raise == [status |-> "raise", desc |-> NoDesc]

\* mutant: qa.get('type') without the 'text' default
descriptor_no_type_default(qa) ==
    [type |-> dict_get(qa.type, Null),
     answer |-> dict_get(qa.answer, Null),
     caption |-> dict_get(qa.caption, Str(<<>>))]

\* lines 58-62: the returned dict
descriptor(qa) ==
    [type |-> dict_get(qa.type, Str(TEXT)),
     answer |-> dict_get(qa.answer, Null),
     caption |-> dict_get(qa.caption, Str(<<>>))]

\* mutant: the keyword is compared without keyword.lower()
RECURSIVE keyword_hit_case_sensitive(_, _, _)
keyword_hit_case_sensitive(keywords, message_lower, j) ==
    IF j > Len(keywords) THEN FALSE
    ELSE IF Contains(message_lower, keywords[j]) THEN TRUE
    ELSE keyword_hit_case_sensitive(keywords, message_lower, j + 1)

\* lines 56-57: the inner loop, from keyword j on
RECURSIVE keyword_hit(_, _, _)
keyword_hit(keywords, message_lower, j) ==
    IF j > Len(keywords) THEN FALSE
    ELSE IF Contains(message_lower, Lower(keywords[j])) THEN TRUE
    ELSE keyword_hit(keywords, message_lower, j + 1)

\* mutant: the loop does not return at the first hit, the last matching
\* record wins
RECURSIVE scan_records_last(_, _, _)
scan_records_last(records, message_lower, i) ==
    IF i > Len(records) THEN ReturnNone
    ELSE LET later == scan_records_last(records, message_lower, i + 1)
         IN  IF later.status = "match" THEN later
             ELSE IF keyword_hit(keywords_of(records[i]), message_lower, 1)
                  THEN [status |-> "match", desc |-> descriptor(records[i])]
                  ELSE ReturnNone

\* lines 54-64: the outer loop, from record i on
RECURSIVE scan_records(_, _, _)
scan_records(records, message_lower, i) ==
    IF i > Len(records) THEN ReturnNone
    ELSE IF keyword_hit(keywords_of(records[i]), message_lower, 1)
         THEN [status |-> "match", desc |-> descriptor(records[i])]
         ELSE scan_records(records, message_lower, i + 1)

\* qa_data is what load_qa_data returned: a list, or None (iterating None
\* raises TypeError)
find_answer(message_text, qa_data) ==
    IF qa_data.tag # "list" THEN Raise
    ELSE scan_records(qa_data.l, Lower(message_text), 1)

----------------------------------------------------------------------------
(* load_qa_data *)

QList(l) == [tag |-> "list", l |-> l]
QNull == [tag |-> "null", l |-> <<>>]
QAbsent == [tag |-> "absent", l |-> <<>>]

\* qa_data.json: not there, not JSON, a JSON array, or a JSON object whose
\* "questions" key is absent, null or a list of records
FileMissing == [kind |-> "missing", questions |-> QAbsent]
FileInvalid == [kind |-> "invalid", questions |-> QAbsent]
FileArray == [kind |-> "array", questions |-> QAbsent]
FileObject(q) == [kind |-> "object", questions |-> q]

\* mutant: the store is read once, when the process starts, and kept
load_qa_data_cached(file) ==
    [status |-> "return", value |-> QList(<<>>), logged |-> FALSE]

\* lines 27-38.  json.load of an array succeeds and data.get then raises
\* AttributeError, which neither except clause catches.
load_qa_data(file) ==
    CASE file.kind = "missing" ->
            [status |-> "return", value |-> QList(<<>>), logged |-> TRUE]
      [] file.kind = "invalid" ->
            [status |-> "return", value |-> QList(<<>>), logged |-> TRUE]
      [] file.kind = "array" ->
            [status |-> "raise", value |-> QNull, logged |-> FALSE]
      [] OTHER ->
            [status |-> "return",
             value |-> IF file.questions.tag = "absent" THEN QList(<<>>)
                       ELSE file.questions,
             logged |-> FALSE]

----------------------------------------------------------------------------
(* handle_message *)

\* what open(path, 'rb') can do with a path that is a string
OpenOutcomes == {"ok", "FileNotFoundError", "PermissionError"}

\* line 96: open(answer, 'rb'); open(None) raises TypeError
open_photo(answer, fs) == IF answer.tag # "str" THEN "TypeError" ELSE fs

NotCalled == [status |-> "notcalled", desc |-> NoDesc]

Idle ==
    [status |-> "idle", update |-> [has_message |-> FALSE, text |-> Absent],
     loads |-> 0, result |-> NotCalled, opened |-> "", sends |-> <<>>,
     exc |-> "", error_logged |-> FALSE, after_failure |-> FALSE]

ReplyText(text) == [prim |-> "reply_text", arg |-> text, caption |-> Null]
ReplyPhoto(path, caption) == [prim |-> "reply_photo", arg |-> path, caption |-> caption]

\* mutant: every type but 'text' is sent as a photo
is_photo_not_text(desc) == desc.type # Str(TEXT)

\* line 92: answer_type == 'photo'
is_photo(desc) == desc.type = Str(PHOTO)

\* mutant: the fallback is sent after a photo that was already sent
fallback_after_photo(desc) ==
    <<ReplyPhoto(desc.answer, Null), ReplyText(Str(FALLBACK_TEXT))>>

\* lines 98-100: the reply of the except FileNotFoundError clause
fallback_reply(desc) == <<ReplyText(Str(FALLBACK_TEXT))>>

\* lines 88-104: the dispatch of a descriptor, up to the await of the send
\* primitive it calls; opened is what open() did, "" when it was not called
reply_dispatch(desc, fs) ==
    IF is_photo(desc)
    THEN LET opened == open_photo(desc.answer, fs)
         IN  CASE opened = "ok" ->
                    [status |-> "awaiting", opened |-> opened,
                     sends |-> <<ReplyPhoto(desc.answer,
                                   IF Truthy(desc.caption) THEN desc.caption ELSE Null)>>,
                     exc |-> ""]
               [] opened = "FileNotFoundError" ->
                    [status |-> "awaiting", opened |-> opened,
                     sends |-> fallback_reply(desc), exc |-> ""]
               [] OTHER ->
                    [status |-> "failed", opened |-> opened, sends |-> <<>>,
                     exc |-> opened]
    ELSE \* line 103: answer[:50] raises TypeError when answer is None
         IF desc.answer.tag # "str"
         THEN [status |-> "failed", opened |-> "", sends |-> <<>>,
               exc |-> "TypeError"]
         ELSE [status |-> "awaiting", opened |-> "",
               sends |-> <<ReplyText(desc.answer)>>, exc |-> ""]

\* mutant: only update.message is tested
has_message_only(update) == update.has_message

\* line 72: update.message and update.message.text are both truthy
has_text(update) == update.has_message /\ Truthy(update.text)

\* lines 72-104, up to the first await: the task the update leaves behind
handle_message(update, file, fs) ==
    IF ~has_text(update)
    THEN [Idle EXCEPT !.status = "ignored", !.update = update]
    ELSE
      LET loaded == load_qa_data(file)
          started == [Idle EXCEPT !.update = update, !.loads = 1]
      IN  IF loaded.status = "raise"
          THEN [started EXCEPT !.status = "failed", !.exc = "AttributeError"]
          ELSE
            LET result == find_answer(update.text.s, loaded.value)
            IN  CASE result.status = "raise" ->
                       [started EXCEPT !.status = "failed", !.result = result,
                                       !.exc = "TypeError"]
                  [] result.status = "none" ->
                       [started EXCEPT !.status = "noanswer", !.result = result]
                  [] OTHER ->
                       LET d == reply_dispatch(result.desc, fs)
                       IN  [started EXCEPT !.status = d.status, !.result = result,
                                           !.opened = d.opened,
                                           !.sends = d.sends, !.exc = d.exc]

\* lines 107-109: the registered error handler logs the error
error_handler(t) ==
    IF t.status = "failed" THEN [t EXCEPT !.error_logged = TRUE] ELSE t

\* mutant: the exception of a handler ends the polling loop
run_polling_crash(t) == IF t.status = "failed" THEN "stopped" ELSE "running"

\* lines 127-132: run_polling keeps polling after a handler raised (the
\* application passes the exception to the registered error handler)
run_polling(t) == "running"

----------------------------------------------------------------------------
(* Inputs *)

Updates ==
    {[has_message |-> FALSE, text |-> Absent],
     [has_message |-> TRUE, text |-> Absent],
     [has_message |-> TRUE, text |-> Str(<<>>)],
     [has_message |-> TRUE, text |-> Str(<<"a">>)],
     [has_message |-> TRUE, text |-> Str(<<"b">>)]}

\* records of the store served by the handler
HRecords ==
    [keywords : {KwList(<<<<"a">>>>)},
     type : {Absent, Null, Str(TEXT), Str(PHOTO), Str(GIF)},
     answer : {Absent, Null, Str(<<"x">>)},
     caption : {Absent, Str(<<"c">>)}]

\* records of the store in the runs with interleaved handlers
ConcRecords ==
    [keywords : {KwList(<<<<"a">>>>)},
     type : {Absent, Str(PHOTO)},
     answer : {Str(<<"x">>)},
     caption : {Absent}]

\* updates and whole-file edits in the runs with interleaved handlers
ConcUpdates ==
    {[has_message |-> TRUE, text |-> Str(<<>>)],
     [has_message |-> TRUE, text |-> Str(<<"a">>)]}

ConcFiles == {FileInvalid, FileArray, FileObject(QNull)}

WholeFiles ==
    {FileMissing, FileInvalid, FileArray, FileObject(QAbsent), FileObject(QNull),
     FileObject(QList(<<>>))}

Tasks == 1..NumTasks

----------------------------------------------------------------------------
(* The bot serving updates *)

NoCall == [message |-> <<>>, qa_data |-> QList(<<>>), out |-> NotCalled]
NoLoad ==
    [file |-> FileMissing,
     out |-> [status |-> "notcalled", value |-> QNull, logged |-> FALSE]]

Init ==
    /\ qa_file = FileObject(QList(<<>>))
    /\ task = [h \in Tasks |-> Idle]
    /\ app = "running"
    /\ call = NoCall
    /\ load_call = NoLoad

\* an external edit replaces the whole file
EditWhole(f) ==
    /\ qa_file' = f
    /\ UNCHANGED <<task, app, call, load_call>>

\* an external edit appends a record to the record list
EditAppend(r) ==
    /\ qa_file.kind = "object"
    /\ qa_file.questions.tag = "list"
    /\ Len(qa_file.questions.l) < MaxStoreLen
    /\ qa_file' = FileObject(QList(Append(qa_file.questions.l, r)))
    /\ UNCHANGED <<task, app, call, load_call>>

\* an external edit removes the first record of the record list
EditRemove ==
    /\ qa_file.kind = "object"
    /\ qa_file.questions.tag = "list"
    /\ qa_file.questions.l # <<>>
    /\ qa_file' = FileObject(QList(Tail(qa_file.questions.l)))
    /\ UNCHANGED <<task, app, call, load_call>>

\* the application hands an update to handle_message in slot h; the handler
\* runs to its first await, or to its end
Deliver(h, update, fs) ==
    /\ app = "running"
    /\ task[h].status # "awaiting"
    /\ LET t == [handle_message(update, qa_file, fs)
                    EXCEPT !.after_failure = (task[h].status = "failed")]
       IN  /\ task' = [task EXCEPT ![h] = error_handler(t)]
           /\ app' = run_polling(t)
    /\ UNCHANGED <<qa_file, call, load_call>>

\* the awaited reply_text / reply_photo returns
SendOk(h) ==
    /\ app = "running"
    /\ task[h].status = "awaiting"
    /\ task' = [task EXCEPT ![h].status = "done"]
    /\ UNCHANGED <<qa_file, app, call, load_call>>

\* the awaited reply_text / reply_photo raises (a network error)
SendFail(h) ==
    /\ app = "running"
    /\ task[h].status = "awaiting"
    /\ LET t == [task[h] EXCEPT !.status = "failed", !.exc = "NetworkError"]
       IN  /\ task' = [task EXCEPT ![h] = error_handler(t)]
           /\ app' = run_polling(t)
    /\ UNCHANGED <<qa_file, call, load_call>>

\* updates are processed one at a time (the application's default)
Next ==
    \/ \E f \in WholeFiles : EditWhole(f)
    \/ \E r \in HRecords : EditAppend(r)
    \/ EditRemove
    \/ \E u \in Updates, fs \in OpenOutcomes : Deliver(1, u, fs)
    \/ SendOk(1)
    \/ SendFail(1)

Spec == Init /\ [][Next]_vars

\* handlers of different updates interleaved at their awaits
NextConc ==
    \/ \E f \in ConcFiles : EditWhole(f)
    \/ \E r \in ConcRecords : EditAppend(r)
    \/ EditRemove
    \/ \E h \in Tasks, u \in ConcUpdates, fs \in OpenOutcomes : Deliver(h, u, fs)
    \/ \E h \in Tasks : SendOk(h)
    \/ \E h \in Tasks : SendFail(h)

SpecConc == Init /\ [][NextConc]_vars

----------------------------------------------------------------------------
(* find_answer called on its own *)

KeywordFields ==
    {KwAbsent, KwList(<<>>), KwList(<<<<>>>>), KwList(<<<<"A", "b">>>>), KwList(<<<<"b">>, <<"A">>>>),
     KwList(<<<<"b", "b">>, <<"b", "a">>>>)}

FieldVariants ==
    {[type |-> Absent, answer |-> Absent, caption |-> Absent],
     [type |-> Null, answer |-> Null, caption |-> Null],
     [type |-> Str(PHOTO), answer |-> Str(<<"y">>), caption |-> Str(<<"c">>)]}

FRecords ==
    {[keywords |-> k, type |-> v.type, answer |-> v.answer, caption |-> v.caption] :
        k \in KeywordFields, v \in FieldVariants}

InitFind ==
    /\ qa_file = FileObject(QList(<<>>))
    /\ task = [h \in Tasks |-> Idle]
    /\ app = "running"
    /\ load_call = NoLoad
    /\ \E m \in TextsUpTo(MaxMsgLen), l \in SeqsUpTo(FRecords, MaxRecords) :
          call = [message |-> m, qa_data |-> QList(l), out |-> NotCalled]

Resolve ==
    /\ call.out.status = "notcalled"
    /\ call' = [call EXCEPT !.out = find_answer(call.message, call.qa_data)]
    /\ UNCHANGED <<qa_file, task, app, load_call>>

NextFind == Resolve

SpecFind == InitFind /\ [][NextFind]_vars

----------------------------------------------------------------------------
(* load_qa_data called on its own *)

AllFiles ==
    WholeFiles \cup {FileObject(QList(l)) : l \in SeqsUpTo(FRecords, MaxRecords)}

InitLoad ==
    /\ qa_file = FileObject(QList(<<>>))
    /\ task = [h \in Tasks |-> Idle]
    /\ app = "running"
    /\ call = NoCall
    /\ \E f \in AllFiles : load_call = [NoLoad EXCEPT !.file = f]

Load ==
    /\ load_call.out.status = "notcalled"
    /\ load_call' = [load_call EXCEPT !.out = load_qa_data(load_call.file)]
    /\ UNCHANGED <<qa_file, task, app, call>>

NextLoad == Load

SpecLoad == InitLoad /\ [][NextLoad]_vars

----------------------------------------------------------------------------
(* What the claims speak of *)

\* some keyword of the record, lowercased, is a substring of the lowercased
\* message
RecordMatches(qa, m) ==
    /\ qa.keywords.tag = "list"
    /\ \E j \in 1..Len(qa.keywords.l) : Contains(Lower(m), Lower(qa.keywords.l[j]))

MatchingIndexes(l, m) == {i \in 1..Len(l) : RecordMatches(l[i], m)}

\* the matching record with the smallest index
FirstMatching(l, m) ==
    l[CHOOSE i \in MatchingIndexes(l, m) : \A j \in MatchingIndexes(l, m) : i <= j]

Returned == call.out.status # "notcalled"

\* the record that decided the returned descriptor, per the first-match rule
Winner == FirstMatching(call.qa_data.l, call.message)

\* the record list a store file holds, for the files that hold one
HoldsList(file) == file.kind = "object" /\ file.questions.tag = "list"

\* the update of the task is a text message that reached the store load
Handled(t) == t.loads = 1

\* a step that starts the handling of a new update in slot h
Delivered(h) == task[h].status # "awaiting" /\ task'[h] # task[h]

----------------------------------------------------------------------------
(* C1 .. C10 *)

\* C1: find_answer returns None exactly when no keyword of any record,
\* lowercased, is a substring of the lowercased message, and returns a
\* descriptor exactly when some record holds such a keyword; records with an
\* empty or absent keywords list never cause a match.
C1_NoneIffNoKeywordMatches ==
    Returned =>
        /\ (call.out.status = "none") <=> (MatchingIndexes(call.qa_data.l, call.message) = {})
        /\ (call.out.status = "match") <=> (MatchingIndexes(call.qa_data.l, call.message) # {})
        /\ (\A i \in 1..Len(call.qa_data.l) : keywords_of(call.qa_data.l[i]) = <<>>)
              => call.out.status = "none"

\* a match that needs the lowercasing, found behind a record without keywords
C1_Witness ==
    /\ call.out.status = "match"
    /\ Len(call.qa_data.l) = 2
    /\ call.qa_data.l[1].keywords = KwAbsent
    /\ call.qa_data.l[2].keywords = KwList(<<<<"A", "b">>>>)
    /\ call.message = <<"a", "b">>

\* C2: whenever find_answer returns a descriptor, it is the descriptor of the
\* matching record with the smallest index; a later matching record never
\* decides the result.
C2_FirstMatchWins ==
    call.out.status = "match" =>
        /\ MatchingIndexes(call.qa_data.l, call.message) # {}
        /\ call.out.desc = descriptor(Winner)

\* both records match and their descriptors differ
C2_Witness ==
    /\ call.out.status = "match"
    /\ MatchingIndexes(call.qa_data.l, call.message) = {1, 2}
    /\ descriptor(call.qa_data.l[1]) # descriptor(call.qa_data.l[2])
    /\ call.qa_data.l[2].keywords = KwList(<<<<"b">>, <<"A">>>>)

\* C3 (as claimed): load_qa_data returns an empty list, and does not raise,
\* whenever the file is missing, is not JSON, or is JSON that is not an object
\* holding a record list under "questions"; otherwise it returns that list.
C3_LoadNeverRaises ==
    load_call.out.status # "notcalled" =>
        IF HoldsList(load_call.file)
        THEN /\ load_call.out.status = "return"
             /\ load_call.out.value = load_call.file.questions
        ELSE /\ load_call.out.status = "return"
             /\ load_call.out.value = QList(<<>>)

\* C4 (as claimed): a matched photo record whose payload cannot be opened,
\* for whatever reason, gets exactly the fallback text and no error of the
\* handler's own; one that can be opened gets exactly one photo.
C4_FallbackWheneverUnopenable ==
    \A h \in Tasks :
        (task[h].result.status = "match" /\ task[h].result.desc.type = Str(PHOTO)) =>
            IF task[h].opened = "ok"
            THEN /\ Len(task[h].sends) = 1
                 /\ task[h].sends[1].prim = "reply_photo"
            ELSE /\ task[h].sends = <<ReplyText(Str(FALLBACK_TEXT))>>
                 /\ task[h].exc \in {"", "NetworkError"}

\* C5 (as claimed): every matched record of a kind other than "photo" gets
\* its payload as exactly one text reply, whatever the payload is, an absent
\* answer included.
C5_TextReplyForEveryPayload ==
    \A h \in Tasks :
        (task[h].result.status = "match" /\ task[h].result.desc.type # Str(PHOTO)) =>
            task[h].sends = <<ReplyText(task[h].result.desc.answer)>>

\* C5 (amended): every matched record of a kind other than "photo" (absent,
\* null and unknown types included) whose answer is a string gets that string
\* verbatim as exactly one text reply; when the answer is absent or null the
\* handler raises TypeError before any send, and nothing is sent.
C5_TextReplyForStringPayload ==
    \A h \in Tasks :
        (task[h].result.status = "match" /\ task[h].result.desc.type # Str(PHOTO)) =>
            IF task[h].result.desc.answer.tag = "str"
            THEN /\ task[h].sends = <<ReplyText(task[h].result.desc.answer)>>
                 /\ task[h].opened = ""
            ELSE /\ task[h].sends = <<>>
                 /\ task[h].status = "failed"
                 /\ task[h].exc = "TypeError"

\* a record whose type is null was answered with its text
C5_Witness ==
    /\ task[1].status = "done"
    /\ task[1].result.desc.type = Null
    /\ task[1].sends = <<ReplyText(Str(<<"x">>))>>

\* C6: no caching.  Whenever an update is handled, the outcome of the match
\* is the one the store file gives at that step, whatever the file held
\* before: no descriptor when the file holds no matching record, the
\* descriptor of the file's first matching record otherwise; every reply
\* carries that record's answer or the fixed fallback, and a reply once
\* issued is not changed by later edits.
C6_ReplyFromCurrentStore ==
    [][\A h \in Tasks :
          /\ (Delivered(h) /\ Handled(task'[h])) =>
                LET m == task'[h].update.text.s
                    l == IF HoldsList(qa_file) THEN qa_file.questions.l ELSE <<>>
                IN  IF qa_file.kind = "array" \/ qa_file.questions.tag = "null"
                    THEN task'[h].status = "failed" /\ task'[h].sends = <<>>
                    ELSE IF MatchingIndexes(l, m) = {}
                    THEN task'[h].result.status = "none" /\ task'[h].sends = <<>>
                    ELSE /\ task'[h].result.status = "match"
                         /\ task'[h].result.desc.answer
                               = dict_get(FirstMatching(l, m).answer, Null)
                         /\ task'[h].result.desc.type
                               = dict_get(FirstMatching(l, m).type, Str(TEXT))
                         /\ \A k \in 1..Len(task'[h].sends) :
                               task'[h].sends[k].arg \in
                                   {dict_get(FirstMatching(l, m).answer, Null),
                                    Str(FALLBACK_TEXT)}
          /\ task[h].status = "awaiting" => task'[h].sends = task[h].sends
      ]_vars

\* a record that an edit put into the file after the process started was answered
C6_Witness ==
    /\ task[1].status = "done"
    /\ task[1].sends = <<ReplyText(Str(<<"x">>))>>
    /\ HoldsList(qa_file)
    /\ qa_file.questions.l # <<>>

C8_CaptionAlwaysString ==
    call.out.status = "match" =>
        /\ call.out.desc.type = (IF Winner.type.tag = "absent" THEN Str(TEXT) ELSE Winner.type)
        /\ call.out.desc.answer = (IF Winner.answer.tag = "absent" THEN Null ELSE Winner.answer)
        /\ call.out.desc.caption
              = (IF Winner.caption.tag = "absent" THEN Str(<<>>) ELSE Winner.caption)
        /\ call.out.desc.caption.tag = "str"

\* C8 (amended): the descriptor of a match has the record's type ("text" when
\* the record has no type field), the record's answer (null when it has
\* none), and the record's caption: "" when the record has no caption field,
\* the stored value otherwise, so a caption stored as null gives a null
\* caption and the caption is a string exactly when the record does not
\* store null.
C8_DescriptorFields ==
    call.out.status = "match" =>
        /\ call.out.desc.type = (IF Winner.type.tag = "absent" THEN Str(TEXT) ELSE Winner.type)
        /\ call.out.desc.answer = (IF Winner.answer.tag = "absent" THEN Null ELSE Winner.answer)
        /\ call.out.desc.caption
              = (IF Winner.caption.tag = "absent" THEN Str(<<>>) ELSE Winner.caption)
        /\ (call.out.desc.caption.tag = "str") <=> (Winner.caption.tag # "null")

\* a match on a record that has no type field
C8_Witness ==
    /\ call.out.status = "match"
    /\ Winner.type = Absent
    /\ Winner.caption = Absent
    /\ call.out.desc.type = Str(TEXT)

\* C9: an update with no message, or whose message has no or an empty text,
\* is ignored: no store load, no match attempt, no send, no error, and the
\* step changes nothing but the record of that update.
C9_NoTextIgnored ==
    [][\A h \in Tasks :
          (Delivered(h) /\ ~(task'[h].update.has_message /\ Truthy(task'[h].update.text))) =>
              /\ task'[h].status = "ignored"
              /\ task'[h].loads = 0
              /\ task'[h].result.status = "notcalled"
              /\ task'[h].sends = <<>>
              /\ ~task'[h].error_logged
              /\ qa_file' = qa_file
              /\ app' = app
      ]_vars

\* a message with an empty text was ignored while the store held a record
C9_Witness ==
    /\ task[1].status = "ignored"
    /\ task[1].update = [has_message |-> TRUE, text |-> Str(<<>>)]
    /\ HoldsList(qa_file)
    /\ qa_file.questions.l # <<>>

============================================================================
